---- MODULE Spec2Model ----
(***************************************************************************)
(* Wiki Runner: the navigation orchestrator of src/App.tsx (the React      *)
(* component App: handleStartGame, resetGame, executeMove, the scheduling  *)
(* effect, the pause/resume toggle, the two guardrail effects) over a      *)
(* small wiki served by wikiService.fetchPageData, with the solvers of     *)
(* src/services.                                                           *)
(*                                                                         *)
(* A title is a sequence of one-character strings, so that normalizeTitle  *)
(* (trim, spaces to underscores, lower case) is computed, not assumed.     *)
(* A nullable value is <<>> (null / undefined) or <<v>>.                   *)
(*                                                                         *)
(* Every await of the code is a place where an asynchronous call is in     *)
(* flight; a call in flight is a record of `jobs` holding the values its   *)
(* closure captured, and one action resumes it.  A React commit and the    *)
(* effects that follow it (statusRef, the 100 ms timer) are part of the    *)
(* action that set the state.                                              *)
(***************************************************************************)
EXTENDS Integers, Sequences, FiniteSets, TLC

VARIABLES
    startPage,        \* useState('Apollo 11')        App.tsx:126
    targetPage,       \* useState('Cheese')           App.tsx:127
    currentWikiPage,  \* useState<WikiPage|null>      App.tsx:128
    history,          \* useState<GameStep[]>([])     App.tsx:129
    status,           \* useState(GameStatus.IDLE)    App.tsx:130
    error,            \* useState<string|null>(null)  App.tsx:131
    highlightedLink,  \* useState<string|null>(null)  App.tsx:132
    solver,           \* useState<SolverType>         App.tsx:136
    statusRef,        \* useRef(status)               App.tsx:148
    jobs,             \* the asynchronous calls in flight
    run,              \* number of handleStartGame calls since the page load
    requests,         \* number of user / environment requests since the page load
    op,               \* the handler or continuation that ran last
    extractor,        \* let extractor: any = null    vectorService (part_001:222)
    isLoading,        \* let isLoading = false        vectorService (part_001:223)
    loads,            \* the calls of loadModel, in the order of their arrival
    isModelLoading,   \* useState(false)              App.tsx:137
    isModelReady,     \* useState(false)              App.tsx:138
    userApiKey,       \* useState('')                 App.tsx:140
    selectedModel,    \* useState('gemini-2.0-flash-exp')  App.tsx:141
    preloads          \* loadModel() promises of the pre-load effect not yet settled

\* the state of the solver panel of App
panelVars == <<isModelLoading, isModelReady, userApiKey, selectedModel, preloads>>

\* the state of App and the module state of vectorService
appVars == <<startPage, targetPage, currentWikiPage, history, status, error,
             highlightedLink, solver, statusRef, jobs, run, requests, op, panelVars>>
modelVars == <<extractor, isLoading, loads>>

vars == <<appVars, modelVars>>

----------------------------------------------------------------------------
(* Bounds of the model *)

\* user and environment requests (an edit of the configuration, start, pause or
\* resume, abort, tab hidden) per page load
MaxRequests == 3

\* asynchronous calls in flight at once
MaxInFlight == 2

\* the step budget, const [maxSteps] = useState(40): the model runs with a
\* smaller budget than the code's 40, so that a run can exhaust it
maxSteps == 3

\* outgoing links of a page handed to the local solver on its own
MaxLinks == 3

\* titles in the history handed to the local solver on its own
MaxVisited == 2

\* calls of loadModel per page load
MaxCallers == 4

----------------------------------------------------------------------------
(* Titles and normalizeTitle *)

None == <<>>
Some(v) == <<v>>

Lower(c) ==
    CASE c = "A" -> "a"
      [] c = "B" -> "b"
      [] c = "D" -> "d"
      [] c = "P" -> "p"
      [] c = "Q" -> "q"
      [] c = "R" -> "r"
      [] c = "T" -> "t"
      [] c = "X" -> "x"
      [] OTHER -> c

toLowerCase(s) == [i \in 1..Len(s) |-> Lower(s[i])]

RECURSIVE trimStart(_)
trimStart(s) ==
    IF s # <<>> /\ Head(s) = " " THEN trimStart(Tail(s)) ELSE s

RECURSIVE trimEnd(_)
trimEnd(s) ==
    IF s # <<>> /\ s[Len(s)] = " " THEN trimEnd(SubSeq(s, 1, Len(s) - 1)) ELSE s

trim(s) == trimEnd(trimStart(s))

\* .replace(/ /g, '_')
replaceSpaces(s) == [i \in 1..Len(s) |-> IF s[i] = " " THEN "_" ELSE s[i]]

\* const normalizeTitle = (title) => title.trim().replace(/ /g, '_').toLowerCase()
normalizeTitle(title) == toLowerCase(replaceSpaces(trim(title)))

----------------------------------------------------------------------------
(* The wiki behind wikiService.fetchPageData *)

tA == <<"A">>
tB == <<"B", " ", "b">>
tD == <<"D">>
tT == <<"T">>
tMain == <<"M", " ", "P">>
tR == <<"R">>              \* a redirect to T
tX == <<"X">>              \* no such page
tP == <<"P">>              \* P and Q link to each other and to nothing else
tQ == <<"Q">>
Main_Page == <<"M", "_", "P">>

WikiPages ==
    { [title |-> tA, links |-> <<tB, tT, tR, tD>>],
      [title |-> tB, links |-> <<tA>>],
      [title |-> tD, links |-> <<>>],
      [title |-> tT, links |-> <<tA>>],
      [title |-> tMain, links |-> <<tA>>],
      [title |-> tP, links |-> <<tQ>>],
      [title |-> tQ, links |-> <<tP>>] }

Redirects == { <<tR, tT>> }

PageTitled(t) == CHOOSE p \in WikiPages : p.title = t

\* MediaWiki reads a requested name with underscores as spaces
wikiName(name) == trim([i \in 1..Len(name) |-> IF name[i] = "_" THEN " " ELSE name[i]])

\* the page a name resolves to with redirects=1; None when data.error is set
Resolve(name) ==
    LET n == wikiName(name) IN
    IF \E p \in WikiPages : p.title = n THEN Some(PageTitled(n))
    ELSE IF \E r \in Redirects : r[1] = n
         THEN Some(PageTitled((CHOOSE r \in Redirects : r[1] = n)[2]))
         ELSE None

\* fetchPageData(title): Some(page), or None for a throw (data.error, or the
\* network failing)
fetchPageData(name) == {Resolve(name), None}

----------------------------------------------------------------------------
(* The solvers.  A solver call ends in a record: throw, or the selectedLink *)
(* (None for undefined) and the kind of reasoning it carries.               *)

Range(s) == {s[i] : i \in 1..Len(s)}

Throw == [throw |-> TRUE, link |-> None, reasoning |-> "none"]
Move(l, r) == [throw |-> FALSE, link |-> l, reasoning |-> r]

\* currentPage.links[0]
FirstLink(page) == IF page.links = <<>> THEN None ELSE Some(page.links[1])

\* what a hosted model may name that is no link of the page
Hallucinated(target) == {tX, target}

\* what the hosted model's API call ends in: a throw (a missing key, the
\* network, the API), a body JSON.parse rejects, or a parsed object with or
\* without its reasoning and its selectedLink (any string)
ApiError == [kind |-> "error", reasoning |-> None, selectedLink |-> None]
Unparsable == [kind |-> "unparsable", reasoning |-> None, selectedLink |-> None]
Parsed(r, l) == [kind |-> "parsed", reasoning |-> r, selectedLink |-> l]

RemoteResponses(page, target) ==
    {ApiError, Unparsable}
    \cup {Parsed(r, l) : r \in {None, Some("model")},
                         l \in {None} \cup {Some(x) : x \in Range(page.links)
                                                        \cup Hallucinated(target)}}

NoReasoning == "No reasoning provided."
ParseFailed == "Failed to parse AI response. Picking first link."

\* the parsing try / catch with the catch rethrowing
ParseAnswerRethrows(page, resp) ==
    IF resp.kind \in {"error", "unparsable"} THEN Throw
    ELSE Move(IF resp.selectedLink # None THEN resp.selectedLink ELSE FirstLink(page),
              IF resp.reasoning # None THEN resp.reasoning[1] ELSE NoReasoning)

\* the end of geminiService / openaiService / claudeService .getNextMove: the
\* await of the API call, then try { JSON.parse ... } catch { ... }
ParseAnswer(page, resp) ==
    CASE resp.kind = "error" -> Throw
      [] resp.kind = "unparsable" -> Move(FirstLink(page), ParseFailed)
      [] OTHER ->
           Move(IF resp.selectedLink # None THEN resp.selectedLink ELSE FirstLink(page),
                IF resp.reasoning # None THEN resp.reasoning[1] ELSE NoReasoning)

\* geminiService / openaiService / claudeService .getNextMove
RemoteGetNextMove(page, target, hist) ==
    {ParseAnswer(page, resp) : resp \in RemoteResponses(page, target)}

\* candidates.slice(0, 200)
MaxCandidates == 200

\* the cosine similarity of the embeddings of target and candidate, in 1/1000
Score(target, c) ==
    CASE c = tA -> 100
      [] c = tB -> 300
      [] c = tD -> 300
      [] c = tT -> 900
      [] c = tR -> 700
      [] OTHER -> 0

RECURSIVE DedupeFrom(_, _, _, _)
\* new Set(links) after the insertion of s[lo..hi] into a Set that holds d; a
\* Set keeps its elements in the order of their first insertion and never
\* shrinks (the test on left, which always passes, has the insertions of the
\* left half done before those of the right half start)
DedupeFrom(s, d, lo, hi) ==
    IF lo > hi THEN d
    ELSE IF lo = hi THEN (IF s[lo] \in Range(d) THEN d ELSE Append(d, s[lo]))
    ELSE LET mid == (lo + hi) \div 2
             left == DedupeFrom(s, d, lo, mid)
         IN IF Len(left) >= Len(d) THEN DedupeFrom(s, left, mid + 1, hi) ELSE left

\* Array.from(new Set(links)): first occurrences, in order
Dedupe(s) == DedupeFrom(s, <<>>, 1, Len(s))

\* the first element of s that satisfies Test, None when there is none
FindLower(s, lowered) ==
    LET hits == {i \in 1..Len(s) : toLowerCase(s[i]) = lowered}
    IN IF hits = {} THEN None
       ELSE Some(s[CHOOSE i \in hits : \A j \in hits : i <= j])

\* the dot product of a vector whose components are NaN (a zero vector divided
\* by its norm): a number no similarity in 1/1000 takes
NaN == -999999

\* the comparison of the scoring loop with >= for >
BetterOrEqual(dot, maxScore) == dot # NaN /\ maxScore # NaN /\ dot >= maxScore

\* if (dot > maxScore): false when either side is NaN
Better(dot, maxScore) == dot # NaN /\ maxScore # NaN /\ dot > maxScore

\* the dot products of the loop when both embedding calls return unit vectors
Dots(target, candidates) ==
    [k \in 1..Len(candidates) |-> Score(target, candidates[k])]

\* the dot products when the model returns a zero-norm vector: for the target
\* (every product is NaN, or 0 where the normalisation left the zeros), or for
\* the first candidate (its product is NaN)
DegenerateDots(target, candidates) ==
    {[k \in 1..Len(candidates) |-> NaN],
     [k \in 1..Len(candidates) |-> 0],
     [k \in 1..Len(candidates) |-> IF k = 1 THEN NaN ELSE Score(target, candidates[k])]}

RECURSIVE ScoreLoop(_, _, _, _, _)
\* for (let i = 0; i < candidates.length; i++) { ... } over the candidates
\* lo..hi, from the maxScore and bestLink in st (the test on left, which
\* always passes, has the iterations lo..mid done before mid + 1 starts)
ScoreLoop(dots, candidates, lo, hi, st) ==
    IF lo > hi THEN st
    ELSE IF lo = hi
    THEN LET dot == dots[lo]
         IN IF Better(dot, st.maxScore)
            THEN [maxScore |-> dot, bestLink |-> candidates[lo]]
            ELSE st
    ELSE LET mid == (lo + hi) \div 2
             left == ScoreLoop(dots, candidates, lo, mid, st)
         IN IF left.bestLink \in Range(candidates)
            THEN ScoreLoop(dots, candidates, mid + 1, hi, left)
            ELSE left

\* the loop of lines 307-323: let maxScore = -2; let bestLink = candidates[0]
BestOf(dots, candidates) ==
    ScoreLoop(dots, candidates, 1, Len(candidates),
              [maxScore |-> -2000, bestLink |-> candidates[1]]).bestLink

\* the link of the loop on the dot products of unit vectors
BestLink(target, candidates) == BestOf(Dots(target, candidates), candidates)

\* a slice that keeps the last n elements
sliceLast(s, n) == SubSeq(s, IF Len(s) < n THEN 1 ELSE Len(s) - n + 1, Len(s))

\* s.slice(0, n)
slice(s, n) == SubSeq(s, 1, IF Len(s) < n THEN Len(s) ELSE n)

\* the filter without its fallback: at a dead end no candidate is left
CandidatesNoFallback(page, hist) ==
    LET normalizedHistory == {toLowerCase(h) : h \in Range(hist)}
                                \cup {toLowerCase(page.title)}
        allUniqueLinks == Dedupe(page.links)
        unvisited == SelectSeq(allUniqueLinks,
                        LAMBDA l : toLowerCase(l) \notin normalizedHistory)
    IN [candidates |-> slice(unvisited, MaxCandidates),
        isBacktracking |-> FALSE]

\* the candidate filter of vectorService.getNextMove, lines 270-290
Candidates(page, hist) ==
    LET normalizedHistory == {toLowerCase(h) : h \in Range(hist)}
                                \cup {toLowerCase(page.title)}
        allUniqueLinks == Dedupe(page.links)
        unvisited == SelectSeq(allUniqueLinks,
                        LAMBDA l : toLowerCase(l) \notin normalizedHistory)
        isBacktracking == unvisited = <<>>
        chosen == IF isBacktracking
                  THEN SelectSeq(allUniqueLinks,
                          LAMBDA l : toLowerCase(l) # toLowerCase(page.title))
                  ELSE unvisited
    IN [candidates |-> slice(chosen, MaxCandidates),
        isBacktracking |-> isBacktracking]

\* a default that is "Main_Page" whatever the links
DefaultLinkMainPage(page) == Main_Page

\* currentPage.links[0] || "Main_Page"
DefaultLink(page) == IF page.links = <<>> THEN Main_Page ELSE page.links[1]

\* lines 304-336: the scoring loop on the dot products and the answer
ScoreCandidates(f, dots) ==
    Move(Some(BestOf(dots, f.candidates)),
         IF f.isBacktracking THEN "forced to loop" ELSE "Visited pages excluded")

\* lines 292-336: the default when no candidate is left, else the embeddings
\* (unit vectors, or with a zero-norm vector) and the scoring loop
AfterFilter(page, target, f) ==
    IF f.candidates = <<>>
    THEN {Move(Some(DefaultLink(page)), "No valid links found.")}
    ELSE {ScoreCandidates(f, dots) :
             dots \in {Dots(target, f.candidates)}
                       \cup DegenerateDots(target, f.candidates)}

\* vectorService.getNextMove: the direct match first; then loadModel and the
\* two embedding calls, each of which may throw or return a zero-norm vector
VectorGetNextMove(page, target, hist) ==
    LET directLink == FindLower(page.links, toLowerCase(target))
    IN IF directLink # None
       THEN {Move(directLink, "Target identified!")}
       ELSE {Throw} \cup
            UNION {AfterFilter(page, target, f) : f \in {Candidates(page, hist)}}

\* the solver selection of executeMove, lines 246-278
getNextMove(s, page, target, hist) ==
    IF s = "VECTORS" THEN VectorGetNextMove(page, target, hist)
                     ELSE RemoteGetNextMove(page, target, hist)

----------------------------------------------------------------------------
(* The state of App and the values the user can enter *)

\* what the user types into Origin Coordinate and Target Objective
StartChoices == {tA, tB}
TargetChoices == {tT, tR, <<"b", "_", "b", " ">>}
SolverChoices == {"GEMINI", "VECTORS"}

\* the API key field: empty, or what the user pasted
NoKey == ""
ApiKeys == {NoKey, "key"}

GeminiDefault == "gemini-2.0-flash-exp"

\* the options of the model select for the solver
ModelChoices(s) ==
    CASE s = "GEMINI" -> {GeminiDefault, "gemini-1.5-pro"}
      [] s = "OPENAI" -> {"gpt-4o-mini", "gpt-4o"}
      [] s = "CLAUDE" -> {"claude-haiku-4-5-20251001"}
      [] OTHER -> {}

\* lines 164-166: the default model of the solver; none for VECTORS
DefaultModel(s, m) ==
    CASE s = "GEMINI" -> GeminiDefault
      [] s = "OPENAI" -> "gpt-4o-mini"
      [] s = "CLAUDE" -> "claude-haiku-4-5-20251001"
      [] OTHER -> m

ErrStart == "Failed to start"
ErrMax == "Maximum attempts reached without finding the target."
ErrSolver == "Solver Error"
NoError == "null"

\* a GameStep that records the link chosen in place of the page left
GameStepOfLink(page, move, s) ==
    [pageTitle |-> IF move.link = None THEN <<>> ELSE move.link[1], solver |-> s]

\* a GameStep.  Only pageTitle is read back (history.map(h => h.pageTitle)); the
\* thought, the timestamp and the duration are shown and never read, and are
\* not modelled
GameStep(page, move, s) == [pageTitle |-> page.title, solver |-> s]

\* an asynchronous call in flight and what its closure holds
StartJob(name, r) ==
    [kind |-> "start", pc |-> "fetchStart", run |-> r, page |-> None,
     target |-> <<>>, solver |-> "none", hist |-> <<>>, link |-> Some(name)]

MoveJob(page, target, s, hist, r) ==
    [kind |-> "move", pc |-> "solver", run |-> r, page |-> Some(page),
     target |-> target, solver |-> s, hist |-> hist, link |-> None]

RemoveAt(s, i) == SubSeq(s, 1, i - 1) \o SubSeq(s, i + 1, Len(s))

Init ==
    /\ startPage = tA
    /\ targetPage = tT
    /\ currentWikiPage = None
    /\ history = <<>>
    /\ status = "IDLE"
    /\ error = NoError
    /\ highlightedLink = None
    /\ solver = "GEMINI"
    /\ statusRef = "IDLE"
    /\ jobs = <<>>
    /\ run = 0
    /\ requests = 0
    /\ op = "mount"
    /\ extractor = None
    /\ isLoading = FALSE
    /\ loads = <<>>
    /\ isModelLoading = FALSE
    /\ isModelReady = FALSE
    /\ userApiKey = NoKey
    /\ selectedModel = GeminiDefault
    /\ preloads = 0

----------------------------------------------------------------------------
(* The handlers *)

\* onChange of the two inputs and the solver buttons, rendered in IDLE only
setStartPage ==
    /\ status = "IDLE"
    /\ requests < MaxRequests
    /\ \E t \in StartChoices : startPage' = t
    /\ requests' = requests + 1
    /\ op' = "setStartPage"
    /\ UNCHANGED <<modelVars, panelVars>>
    /\ UNCHANGED <<targetPage, currentWikiPage, history, status, error,
                   highlightedLink, solver, statusRef, jobs, run>>

setTargetPage ==
    /\ status = "IDLE"
    /\ requests < MaxRequests
    /\ \E t \in TargetChoices : targetPage' = t
    /\ requests' = requests + 1
    /\ op' = "setTargetPage"
    /\ UNCHANGED <<modelVars, panelVars>>
    /\ UNCHANGED <<startPage, currentWikiPage, history, status, error,
                   highlightedLink, solver, statusRef, jobs, run>>

\* the effect of lines 153-171 (dependencies solver and isModelReady) when
\* it runs with the solver s and the flag ready: the pre-load, the default
\* model of the solver, the key cleared
solverEffect(s, ready) ==
    /\ IF s = "VECTORS" /\ ~ready
       THEN isModelLoading' = TRUE /\ preloads' = preloads + 1
       ELSE UNCHANGED <<isModelLoading, preloads>>
    /\ selectedModel' = DefaultModel(s, selectedModel)
    /\ userApiKey' = NoKey

\* a solver button of the panel (rendered in IDLE only): setSolver, and the
\* effect when the solver changed
setSolver ==
    /\ status = "IDLE"
    /\ requests < MaxRequests
    /\ \E s \in SolverChoices :
          /\ solver' = s
          /\ IF s # solver
             THEN solverEffect(s, isModelReady) /\ UNCHANGED isModelReady
             ELSE UNCHANGED panelVars
    /\ requests' = requests + 1
    /\ op' = "setSolver"
    /\ UNCHANGED modelVars
    /\ UNCHANGED <<startPage, targetPage, currentWikiPage, history, status, error,
                   highlightedLink, statusRef, jobs, run>>

\* the API key input of the panel, rendered in IDLE for the hosted solvers
setUserApiKey ==
    /\ status = "IDLE"
    /\ solver # "VECTORS"
    /\ \E k \in ApiKeys : userApiKey' = k
    /\ op' = "setUserApiKey"
    /\ UNCHANGED <<isModelLoading, isModelReady, selectedModel, preloads>>
    /\ UNCHANGED modelVars
    /\ UNCHANGED <<startPage, targetPage, currentWikiPage, history, status, error,
                   highlightedLink, solver, statusRef, jobs, run, requests>>

\* the model select of the panel
setSelectedModel ==
    /\ status = "IDLE"
    /\ solver # "VECTORS"
    /\ \E m \in ModelChoices(solver) : selectedModel' = m
    /\ op' = "setSelectedModel"
    /\ UNCHANGED <<isModelLoading, isModelReady, userApiKey, preloads>>
    /\ UNCHANGED modelVars
    /\ UNCHANGED <<startPage, targetPage, currentWikiPage, history, status, error,
                   highlightedLink, solver, statusRef, jobs, run, requests>>

\* a loadModel() promise of the pre-load effect resolves: the then() of lines
\* 157-160, and the effect again when isModelReady changed
preloadResolves ==
    /\ preloads > 0
    /\ preloads' = preloads - 1
    /\ isModelLoading' = FALSE
    /\ isModelReady' = TRUE
    /\ IF ~isModelReady
       THEN /\ selectedModel' = DefaultModel(solver, selectedModel)
            /\ userApiKey' = NoKey
       ELSE UNCHANGED <<selectedModel, userApiKey>>
    /\ op' = "preloadResolves"
    /\ UNCHANGED modelVars
    /\ UNCHANGED <<startPage, targetPage, currentWikiPage, history, status, error,
                   highlightedLink, solver, statusRef, jobs, run, requests>>

\* a loadModel() promise of the pre-load effect rejects: no then() runs
preloadRejects ==
    /\ preloads > 0
    /\ preloads' = preloads - 1
    /\ op' = "preloadRejects"
    /\ UNCHANGED <<isModelLoading, isModelReady, userApiKey, selectedModel>>
    /\ UNCHANGED modelVars
    /\ UNCHANGED <<startPage, targetPage, currentWikiPage, history, status, error,
                   highlightedLink, solver, statusRef, jobs, run, requests>>

\* handleStartGame up to its await (the Engage button, rendered in IDLE only)
handleStartGame ==
    /\ status = "IDLE"
    /\ requests < MaxRequests
    /\ Len(jobs) < MaxInFlight
    /\ status' = "STARTING"
    /\ statusRef' = "STARTING"
    /\ error' = NoError
    /\ history' = <<>>
    /\ highlightedLink' = None
    /\ run' = run + 1
    /\ jobs' = Append(jobs, StartJob(startPage, run + 1))
    /\ requests' = requests + 1
    /\ op' = "handleStartGame"
    /\ UNCHANGED <<modelVars, panelVars>>
    /\ UNCHANGED <<startPage, targetPage, currentWikiPage, solver>>

\* handleStartGame after its await: the page, or the catch
startFetchReturns(i) ==
    /\ jobs[i].pc = "fetchStart"
    /\ \E r \in fetchPageData(jobs[i].link[1]) :
          IF r # None
          THEN /\ currentWikiPage' = r
               /\ status' = "PLAYING"
               /\ statusRef' = "PLAYING"
               /\ error' = error
          ELSE /\ error' = ErrStart
               /\ status' = "IDLE"
               /\ statusRef' = "IDLE"
               /\ currentWikiPage' = currentWikiPage
    /\ jobs' = RemoveAt(jobs, i)
    /\ op' = "startFetchReturns"
    /\ UNCHANGED <<modelVars, panelVars>>
    /\ UNCHANGED <<startPage, targetPage, history, highlightedLink, solver, run, requests>>

\* resetGame without its setHighlightedLink(null)
resetGameKeepsHighlight ==
    /\ status # "IDLE"
    /\ requests < MaxRequests
    /\ status' = "IDLE"
    /\ statusRef' = "IDLE"
    /\ history' = <<>>
    /\ currentWikiPage' = None
    /\ error' = NoError
    /\ requests' = requests + 1
    /\ op' = "resetGame"
    /\ UNCHANGED <<modelVars, panelVars>>
    /\ UNCHANGED <<startPage, targetPage, solver, jobs, run, highlightedLink>>

\* resetGame (the abort button of the header, rendered outside IDLE, and the
\* buttons of the two overlays)
resetGame ==
    /\ status # "IDLE"
    /\ requests < MaxRequests
    /\ status' = "IDLE"
    /\ statusRef' = "IDLE"
    /\ history' = <<>>
    /\ currentWikiPage' = None
    /\ error' = NoError
    /\ highlightedLink' = None
    /\ requests' = requests + 1
    /\ op' = "resetGame"
    /\ UNCHANGED <<modelVars, panelVars>>
    /\ UNCHANGED <<startPage, targetPage, solver, jobs, run>>

\* the pause / resume button of the header, rendered outside IDLE
togglePause ==
    /\ status # "IDLE"
    /\ requests < MaxRequests
    /\ status' = IF status = "PAUSED" THEN "PLAYING" ELSE "PAUSED"
    /\ statusRef' = status'
    /\ requests' = requests + 1
    /\ op' = "togglePause"
    /\ UNCHANGED <<modelVars, panelVars>>
    /\ UNCHANGED <<startPage, targetPage, currentWikiPage, history, error,
                   highlightedLink, solver, jobs, run>>

\* GUARDRAIL 2: handleVisibilityChange with document.hidden, in any status:
\* if (document.hidden && status === GameStatus.PLAYING) setStatus(PAUSED)
handleVisibilityChange ==
    /\ requests < MaxRequests
    /\ status' = IF status = "PLAYING" THEN "PAUSED" ELSE status
    /\ statusRef' = status'
    /\ requests' = requests + 1
    /\ op' = "handleVisibilityChange"
    /\ UNCHANGED <<modelVars, panelVars>>
    /\ UNCHANGED <<startPage, targetPage, currentWikiPage, history, error,
                   highlightedLink, solver, jobs, run>>

\* a reload that would leave the calls in flight running
reloadKeepsJobs ==
    /\ startPage' = tA
    /\ targetPage' = tT
    /\ currentWikiPage' = None
    /\ history' = <<>>
    /\ status' = "IDLE"
    /\ error' = NoError
    /\ highlightedLink' = None
    /\ solver' = "GEMINI"
    /\ statusRef' = "IDLE"
    /\ jobs' = jobs
    /\ run' = 0
    /\ requests' = 0
    /\ op' = "reload"
    /\ extractor' = None
    /\ isLoading' = FALSE
    /\ loads' = <<>>
    /\ isModelLoading' = FALSE
    /\ isModelReady' = FALSE
    /\ userApiKey' = NoKey
    /\ selectedModel' = GeminiDefault
    /\ preloads' = 0

\* GUARDRAIL 1: window.location.reload() five minutes after the mount.  The
\* page is loaded anew: every useState is back at its initial value and the
\* calls in flight die with the old document
reload ==
    /\ startPage' = tA
    /\ targetPage' = tT
    /\ currentWikiPage' = None
    /\ history' = <<>>
    /\ status' = "IDLE"
    /\ error' = NoError
    /\ highlightedLink' = None
    /\ solver' = "GEMINI"
    /\ statusRef' = "IDLE"
    /\ jobs' = <<>>
    /\ run' = 0
    /\ requests' = 0
    /\ op' = "reload"
    /\ extractor' = None
    /\ isLoading' = FALSE
    /\ loads' = <<>>
    /\ isModelLoading' = FALSE
    /\ isModelReady' = FALSE
    /\ userApiKey' = NoKey
    /\ selectedModel' = GeminiDefault
    /\ preloads' = 0

----------------------------------------------------------------------------
(* executeMove, called by the 100 ms timer of the scheduling effect.  The   *)
(* effect re-arms the timer with the executeMove of the latest render       *)
(* whenever status, currentWikiPage, history, targetPage or solver changed, *)
(* so the call reads the committed state.                                   *)

\* the budget test with > for >=
BudgetExhaustedOffByOne(h) == Len(h) > maxSteps

\* history.length >= maxSteps
BudgetExhausted(h) == Len(h) >= maxSteps

\* the success check on the titles as they are written
ReachedTargetExact(page, target) == page.title = target

\* the strict success check: currentNorm === targetNorm
ReachedTarget(page, target) ==
    LET currentNorm == normalizeTitle(page.title)
        targetNorm == normalizeTitle(target)
    IN currentNorm = targetNorm

\* the guard without its status test
CanMoveAnyStatus(page, st) == page # None /\ st \in {"PLAYING", "PAUSED"}

\* the scheduling effect arms the timer in PLAYING only, and executeMove
\* returns at once unless there is a current page and the status is PLAYING
CanMove(page, st) == page # None /\ st = "PLAYING"

\* executeMove up to its first await
executeMove ==
    /\ CanMove(currentWikiPage, status)
    /\ LET page == currentWikiPage[1]
       IN IF ReachedTarget(page, targetPage)
          THEN /\ status' = "SUCCESS"
               /\ UNCHANGED <<error, jobs>>
          ELSE IF BudgetExhausted(history)
          THEN /\ status' = "FAILED"
               /\ error' = ErrMax
               /\ UNCHANGED jobs
          ELSE /\ Len(jobs) < MaxInFlight
               /\ status' = "LOADING_STEP"
               /\ jobs' = Append(jobs, MoveJob(page, targetPage, solver,
                                    [k \in 1..Len(history) |-> history[k].pageTitle], run))
               /\ UNCHANGED error
    /\ statusRef' = status'
    /\ op' = "executeMove"
    /\ UNCHANGED <<modelVars, panelVars>>
    /\ UNCHANGED <<startPage, targetPage, currentWikiPage, history,
                   highlightedLink, solver, run, requests>>

\* setHistory([newStep]): the new Step in place of the Steps so far
ReplaceSteps(prev, step) == <<step>>

\* setHistory(prev => [...prev, newStep])
AppendStep(prev, step) == Append(prev, step)

\* the solver call returns (lines 280-294) or throws (the catch, 321-325)
solverReturns(i) ==
    /\ jobs[i].pc = "solver"
    /\ \E move \in getNextMove(jobs[i].solver, jobs[i].page[1], jobs[i].target, jobs[i].hist) :
          IF move.throw
          THEN /\ error' = ErrSolver
               /\ status' = "FAILED"
               /\ statusRef' = "FAILED"
               /\ jobs' = RemoveAt(jobs, i)
               /\ UNCHANGED <<highlightedLink, history>>
          ELSE /\ highlightedLink' = move.link
               /\ history' = AppendStep(history, GameStep(jobs[i].page[1], move, jobs[i].solver))
               /\ jobs' = [jobs EXCEPT ![i].pc = "delay", ![i].link = move.link,
                                       ![i].hist = <<>>]
               /\ UNCHANGED <<error, status, statusRef>>
    /\ op' = "solverReturns"
    /\ UNCHANGED <<modelVars, panelVars>>
    /\ UNCHANGED <<startPage, targetPage, currentWikiPage, solver, run, requests>>

\* the 1500 ms delay is over (lines 297-316): the branch taken, up to its fetch
delayElapsed(i) ==
    /\ jobs[i].pc = "delay"
    /\ IF jobs[i].link = None
       THEN \* normalizeTitle(undefined) throws a TypeError: the catch
            /\ error' = ErrSolver
            /\ status' = "FAILED"
            /\ statusRef' = "FAILED"
            /\ jobs' = RemoveAt(jobs, i)
       ELSE /\ jobs' = [jobs EXCEPT ![i].pc =
                          IF normalizeTitle(jobs[i].link[1]) = normalizeTitle(jobs[i].target)
                          THEN "fetchFinal"
                          ELSE IF statusRef = "PAUSED" THEN "fetchPaused"
                          ELSE "fetchNext"]
            /\ UNCHANGED <<error, status, statusRef>>
    /\ op' = "delayElapsed"
    /\ UNCHANGED <<modelVars, panelVars>>
    /\ UNCHANGED <<startPage, targetPage, currentWikiPage, history, highlightedLink,
                   solver, run, requests>>

\* the status a step sets once its destination is fetched: SUCCESS (line 303),
\* none in the paused branch (308-314), PLAYING (line 320)
StatusAfterFetch(pc, st) ==
    CASE pc = "fetchFinal" -> "SUCCESS"
      [] pc = "fetchPaused" -> st
      [] pc = "fetchNext" -> "PLAYING"

\* the destination fetch returns (lines 300-320) or throws (the catch)
fetchReturns(i) ==
    /\ jobs[i].pc \in {"fetchFinal", "fetchPaused", "fetchNext"}
    /\ \E r \in fetchPageData(jobs[i].link[1]) :
          IF r # None
          THEN /\ currentWikiPage' = r
               /\ highlightedLink' = None
               /\ status' = StatusAfterFetch(jobs[i].pc, status)
               /\ error' = error
          ELSE /\ error' = ErrSolver
               /\ status' = "FAILED"
               /\ UNCHANGED <<currentWikiPage, highlightedLink>>
    /\ statusRef' = status'
    /\ jobs' = RemoveAt(jobs, i)
    /\ op' = "fetchReturns"
    /\ UNCHANGED <<modelVars, panelVars>>
    /\ UNCHANGED <<startPage, targetPage, history, solver, run, requests>>

Next ==
    \/ setStartPage
    \/ setTargetPage
    \/ setSolver
    \/ handleStartGame
    \/ \E i \in 1..Len(jobs) : startFetchReturns(i)
    \/ resetGame
    \/ togglePause
    \/ handleVisibilityChange
    \/ reload
    \/ executeMove
    \/ \E i \in 1..Len(jobs) : solverReturns(i)
    \/ \E i \in 1..Len(jobs) : delayElapsed(i)
    \/ \E i \in 1..Len(jobs) : fetchReturns(i)
    \/ preloadResolves
    \/ preloadRejects

Spec == Init /\ [][Next]_vars

\* The scheduling the code has: the 100 ms timer fires, and every call in
\* flight returns or throws.  No request of the user is ever forced.
FairSpec ==
    /\ Init
    /\ [][Next]_vars
    /\ WF_vars(executeMove)
    /\ WF_vars(\E i \in 1..Len(jobs) : startFetchReturns(i))
    /\ WF_vars(\E i \in 1..Len(jobs) : solverReturns(i))
    /\ WF_vars(\E i \in 1..Len(jobs) : delayElapsed(i))
    /\ WF_vars(\E i \in 1..Len(jobs) : fetchReturns(i))

----------------------------------------------------------------------------
(* The local solver on its own: vectorService.getNextMove is called with    *)
(* any page, target and history, in a step whose solver call is in flight,  *)
(* and the step runs to its end.                                            *)

tBu == <<"b", "_", "b">>

VecTitles == {tA, tB, tBu, tD, tT}
VecPageTitles == {tA, tB}
VecVisited == {tB, tT}
VecTargets == {tT, tX, <<"b", "_", "b", " ">>}

SeqsUpTo(S, n) == UNION {[1..k -> S] : k \in 0..n}

\* a page with more distinct links than the local solver scores, the first
\* of them twice
LongTitle(k) == [j \in 1..k |-> "l"]
LongPage ==
    [title |-> tA,
     links |-> [k \in 1..(MaxCandidates + 2) |-> LongTitle(IF k = 2 THEN 1 ELSE k)]]

VecInit ==
    /\ startPage = tA
    /\ targetPage \in VecTargets
    /\ currentWikiPage \in {Some([title |-> t, links |-> l]) :
                              t \in VecPageTitles, l \in SeqsUpTo(VecTitles, MaxLinks)}
                           \cup {Some(LongPage)}
    /\ history \in {[k \in 1..Len(v) |-> [pageTitle |-> v[k], solver |-> "VECTORS"]] :
                      v \in SeqsUpTo(VecVisited, MaxVisited)}
    /\ status = "LOADING_STEP"
    /\ error = NoError
    /\ highlightedLink = None
    /\ solver = "VECTORS"
    /\ statusRef = "LOADING_STEP"
    /\ jobs = <<MoveJob(currentWikiPage[1], targetPage, "VECTORS",
                        [k \in 1..Len(history) |-> history[k].pageTitle], 1)>>
    /\ run = 1
    /\ requests = 0
    /\ op = "executeMove"
    /\ extractor = None
    /\ isLoading = FALSE
    /\ loads = <<>>
    /\ isModelLoading = FALSE
    /\ isModelReady = FALSE
    /\ userApiKey = NoKey
    /\ selectedModel = GeminiDefault
    /\ preloads = 0

VecNext ==
    \/ \E i \in 1..Len(jobs) : solverReturns(i)
    \/ \E i \in 1..Len(jobs) : delayElapsed(i)
    \/ \E i \in 1..Len(jobs) : fetchReturns(i)

VecSpec == VecInit /\ [][VecNext]_vars

----------------------------------------------------------------------------
(* A run of the local solver on the two pages that link only to each other, *)
(* left to itself: the start, then the ticks and the steps they launch.     *)

\* targets no path from P or Q leads to
LoopTargets == {tT, tA, tX}

LoopInit ==
    /\ startPage \in {tP, tQ}
    /\ targetPage \in LoopTargets
    /\ currentWikiPage = None
    /\ history = <<>>
    /\ status = "IDLE"
    /\ error = NoError
    /\ highlightedLink = None
    /\ solver = "VECTORS"
    /\ statusRef = "IDLE"
    /\ jobs = <<>>
    /\ run = 0
    /\ requests = 0
    /\ op = "mount"
    /\ extractor = None
    /\ isLoading = FALSE
    /\ loads = <<>>
    /\ isModelLoading = FALSE
    /\ isModelReady = FALSE
    /\ userApiKey = NoKey
    /\ selectedModel = GeminiDefault
    /\ preloads = 0

LoopNext ==
    \/ handleStartGame
    \/ \E i \in 1..Len(jobs) : startFetchReturns(i)
    \/ executeMove
    \/ \E i \in 1..Len(jobs) : solverReturns(i)
    \/ \E i \in 1..Len(jobs) : delayElapsed(i)
    \/ \E i \in 1..Len(jobs) : fetchReturns(i)

\* the scheduling of FairSpec: the timer fires and every call returns or throws
LoopSpec ==
    /\ LoopInit
    /\ [][LoopNext]_vars
    /\ WF_vars(executeMove)
    /\ WF_vars(\E i \in 1..Len(jobs) : startFetchReturns(i))
    /\ WF_vars(\E i \in 1..Len(jobs) : solverReturns(i))
    /\ WF_vars(\E i \in 1..Len(jobs) : delayElapsed(i))
    /\ WF_vars(\E i \in 1..Len(jobs) : fetchReturns(i))

----------------------------------------------------------------------------
(* The solver panel on its own: the solver buttons, the key field, the      *)
(* model select and the pre-load of the local model.                        *)

PanelNext ==
    \/ setSolver
    \/ setUserApiKey
    \/ setSelectedModel
    \/ preloadResolves
    \/ preloadRejects

PanelSpec == Init /\ [][PanelNext]_vars

----------------------------------------------------------------------------
(* vectorService.loadModel on its own: the pre-load effect of App and each  *)
(* getNextMove call it, in any interleaving.  JavaScript runs a call up to  *)
(* its next await without interruption, so an action is one such stretch.   *)

Load(pc, result) == [pc |-> pc, result |-> result]

\* loadModel without the isLoading test
loadModelUnguarded ==
    /\ Len(loads) < MaxCallers
    /\ IF extractor # None
       THEN /\ loads' = Append(loads, Load("done", "model"))
            /\ UNCHANGED <<extractor, isLoading>>
       ELSE /\ isLoading' = TRUE
            /\ loads' = Append(loads, Load("pipeline", "none"))
            /\ UNCHANGED extractor
    /\ UNCHANGED appVars

\* loadModel from its entry to its return or its first await (lines 226-237)
loadModel ==
    /\ Len(loads) < MaxCallers
    /\ IF extractor # None
       THEN /\ loads' = Append(loads, Load("done", "model"))
            /\ UNCHANGED <<extractor, isLoading>>
       ELSE IF isLoading
       THEN /\ loads' = Append(loads, Load("waiting", "none"))
            /\ UNCHANGED <<extractor, isLoading>>
       ELSE /\ isLoading' = TRUE
            /\ loads' = Append(loads, Load("pipeline", "none"))
            /\ UNCHANGED extractor
    /\ UNCHANGED appVars

\* await pipeline(...) resolves: extractor is set, finally, return (237-246)
pipelineResolves(i) ==
    /\ loads[i].pc = "pipeline"
    /\ extractor' = Some("model")
    /\ isLoading' = FALSE
    /\ loads' = [loads EXCEPT ![i] = Load("done", "model")]
    /\ UNCHANGED appVars

\* await pipeline(...) rejects: the catch rethrows after finally (239-244)
pipelineRejects(i) ==
    /\ loads[i].pc = "pipeline"
    /\ isLoading' = FALSE
    /\ loads' = [loads EXCEPT ![i] = Load("done", "throw")]
    /\ UNCHANGED <<extractor, appVars>>

\* a 100 ms wait of the polling loop ends with isLoading false: return
\* extractor (228-232); with isLoading true the loop waits again
pollElapsed(i) ==
    /\ loads[i].pc = "waiting"
    /\ ~isLoading
    /\ loads' = [loads EXCEPT ![i] =
                    Load("done", IF extractor = None THEN "null" ELSE "model")]
    /\ UNCHANGED <<extractor, isLoading, appVars>>

LoadNext ==
    \/ loadModel
    \/ \E i \in 1..Len(loads) : pipelineResolves(i)
    \/ \E i \in 1..Len(loads) : pipelineRejects(i)
    \/ \E i \in 1..Len(loads) : pollElapsed(i)

LoadSpec == Init /\ [][LoadNext]_vars

----------------------------------------------------------------------------
(* Properties of the orchestrator *)

MoveJobsOfRun == {i \in 1..Len(jobs) : jobs[i].kind = "move" /\ jobs[i].run = run}

Terminal == {"SUCCESS", "FAILED"}

\* C1: in every reachable state the number of Steps in history is at most the
\* step budget
C1_HistoryWithinBudget == Len(history) <= maxSteps

\* C2: at most one step of the current run is in flight: the solver is never
\* invoked for a new step while an earlier step of the same run is in flight
C2_OneStepInFlight == Cardinality(MoveJobsOfRun) <= 1

\* C3: a step whose Step has been appended (its solver call has returned)
\* chose a link that is a member of the outgoing links of the node it left
C3_OnlyOutgoingLinksCommitted ==
    \A i \in 1..Len(jobs) :
        (jobs[i].kind = "move" /\ jobs[i].pc # "solver")
            => /\ jobs[i].link # None
               /\ jobs[i].link[1] \in Range(jobs[i].page[1].links)

\* C4: from the state an abort leaves (IDLE, no history, no current node) with
\* work still in flight, nothing but a new start changes the status, appends a
\* Step or sets the current node
C4_AbortDiscardsInFlight ==
    [][(/\ status = "IDLE" /\ history = <<>> /\ currentWikiPage = None
        /\ jobs # <<>>
        /\ op' # "handleStartGame")
       => (status' = "IDLE" /\ history' = <<>> /\ currentWikiPage' = None)]_vars

\* C5: when a step whose link is not the target finishes its destination fetch
\* while the status is PAUSED (a pause arrived while it was in flight), the hop
\* is committed and the status stays PAUSED
C5_PauseDuringStepKept ==
    [][\A i \in 1..Len(jobs) :
         (/\ status = "PAUSED"
          /\ jobs[i].pc \in {"fetchPaused", "fetchNext"}
          /\ op' = "fetchReturns"
          /\ jobs' = RemoveAt(jobs, i)
          /\ error' = error)
         => (status' = "PAUSED" /\ currentWikiPage' = Resolve(jobs[i].link[1]))]_vars

\* C6: once the status is SUCCESS or FAILED it changes only through abort or
\* the wall-clock reload
C6_TerminalStatesStay ==
    [][(status \in Terminal /\ status' # status) => op' \in {"resetGame", "reload"}]_vars

\* C7: a tick in PLAYING with the current node not the target and the budget
\* used up sets FAILED with the budget reason, starts no solver call and leaves
\* history and the current node unchanged
C7_BudgetExhaustedFails ==
    [][(/\ op' = "executeMove"
        /\ normalizeTitle(currentWikiPage[1].title) # normalizeTitle(targetPage)
        /\ Len(history) >= maxSteps)
       => (/\ status' = "FAILED"
           /\ error' = ErrMax
           /\ jobs' = jobs
           /\ history' = history
           /\ currentWikiPage' = currentWikiPage)]_vars

C7_Witness ==
    /\ op = "executeMove"
    /\ status = "FAILED"
    /\ error = ErrMax
    /\ Len(history) = maxSteps
    /\ normalizeTitle(currentWikiPage[1].title) # normalizeTitle(targetPage)

\* C8: whenever the status is SUCCESS the canonical title of the current node
\* equals the canonical target
C8_SuccessMeansAtTarget ==
    status = "SUCCESS" =>
        /\ currentWikiPage # None
        /\ normalizeTitle(currentWikiPage[1].title) = normalizeTitle(targetPage)

NoRequest == op \notin {"togglePause", "resetGame", "handleVisibilityChange", "reload"}

StartFailed == op = "startFetchReturns" /\ status = "IDLE"

Undisturbed == [](NoRequest /\ ~StartFailed)

\* C9: a run that is PLAYING on a node, after which no pause, abort, tab
\* hiding or reload is issued and no start fetch fails, eventually is SUCCESS
\* or FAILED, and its history never holds more Steps than the budget
C9_RunTerminates ==
    /\ []((status = "PLAYING" /\ currentWikiPage # None /\ Undisturbed)
             => <>(status \in Terminal))
    /\ []((status = "PLAYING" /\ currentWikiPage # None /\ Undisturbed)
             => [](Len(history) <= maxSteps))

\* C10: right after an abort the status is IDLE, history is empty and there is
\* no current node, no error and no highlighted link
C10_AbortClearsRun ==
    op = "resetGame" =>
        /\ status = "IDLE"
        /\ history = <<>>
        /\ currentWikiPage = None
        /\ error = NoError
        /\ highlightedLink = None

C10_Witness ==
    /\ op = "resetGame"
    /\ \E i \in 1..Len(jobs) : jobs[i].pc = "delay"

\* C11: a start moves IDLE to STARTING with history emptied; when its fetch
\* returns a node the status is PLAYING, that node is the current node and
\* history is empty; when its fetch fails the status is IDLE with the start
\* error set, history empty and no current node
C11_StartOutcome ==
    [][/\ (op' = "handleStartGame")
            => (status = "IDLE" /\ status' = "STARTING" /\ history' = <<>>)
       /\ (op' = "startFetchReturns")
            => \E i \in 1..Len(jobs) :
                 /\ jobs[i].pc = "fetchStart"
                 /\ jobs' = RemoveAt(jobs, i)
                 /\ \/ /\ status' = "PLAYING"
                       /\ currentWikiPage' = Resolve(jobs[i].link[1])
                       /\ currentWikiPage' # None
                       /\ history' = <<>>
                    \/ /\ status' = "IDLE"
                       /\ error' = ErrStart
                       /\ history' = <<>>
                       /\ currentWikiPage' = None]_vars

\* C12: whatever the status and the work in flight, the expiry of the
\* wall-clock timer leaves IDLE with no history and no current node in one
\* step, not SUCCESS or FAILED, and leaves no call in flight whose result
\* could be applied afterwards
C12_TimerResets ==
    [][(op' = "reload")
         => (/\ status' = "IDLE"
             /\ status' \notin Terminal
             /\ history' = <<>>
             /\ currentWikiPage' = None
             /\ jobs' = <<>>)]_vars

C12_Witness == op = "reload" /\ status = "IDLE" /\ jobs = <<>>

----------------------------------------------------------------------------
(* Properties of the local solver, stated on the solver calls in flight *)

VecCalls == {i \in 1..Len(jobs) : jobs[i].pc = "solver" /\ jobs[i].solver = "VECTORS"}

\* the canonical form of the data model: trimmed, case folded, spaces and
\* underscores equivalent
Canonical(t) == normalizeTitle(t)

\* the canonical forms of the history and of the current node
VisitedSet(page, hist) ==
    {Canonical(h) : h \in Range(hist)} \cup {Canonical(page.title)}

\* C14: unless the fallback was used, no candidate of the local solver has the
\* canonical form of a visited node or of the current node
C14_CandidatesUnvisited ==
    \A i \in VecCalls :
        LET f == Candidates(jobs[i].page[1], jobs[i].hist)
        IN ~f.isBacktracking
              => \A k \in 1..Len(f.candidates) :
                    Canonical(f.candidates[k])
                        \notin VisitedSet(jobs[i].page[1], jobs[i].hist)

\* C15: the fallback flag of the local solver is true exactly when every
\* outgoing link other than the current node is already visited, and then the
\* candidates are the deduplicated links minus only the current node
C15_FallbackIffAllVisited ==
    \A i \in VecCalls :
        LET page == jobs[i].page[1]
            f == Candidates(page, jobs[i].hist)
            isSelf(l) == Canonical(l) = Canonical(page.title)
            visited(l) == Canonical(l) \in {Canonical(h) : h \in Range(jobs[i].hist)}
        IN /\ f.isBacktracking
                <=> \A l \in Range(page.links) : ~isSelf(l) => visited(l)
           /\ f.isBacktracking
                => f.candidates = SelectSeq(Dedupe(page.links), LAMBDA l : ~isSelf(l))

\* C16: when an outgoing link of the current node canonically equals the
\* target, the only outcome of the local solver is that link with the rationale
\* of the direct match: no outcome of a model load or of an embedding call
C16_ExactMatchShortCircuit ==
    \A i \in VecCalls :
        LET page == jobs[i].page[1]
            hits == {k \in 1..Len(page.links) :
                        Canonical(page.links[k]) = Canonical(jobs[i].target)}
        IN hits # {}
             => \E k \in hits :
                   getNextMove("VECTORS", page, jobs[i].target, jobs[i].hist)
                       = {Move(Some(page.links[k]), "Target identified!")}

\* C17: when the current node has no outgoing link, or no candidate is left
\* after filtering, the return of the local solver's call sets FAILED, appends
\* no Step and starts no hop
C17_NoCandidatesFails ==
    [][\A i \in VecCalls :
         (/\ Candidates(jobs[i].page[1], jobs[i].hist).candidates = <<>>
          /\ op' = "solverReturns"
          /\ \/ jobs' = RemoveAt(jobs, i)
             \/ Len(jobs') = Len(jobs) /\ jobs'[i] # jobs[i])
         => (/\ status' = "FAILED"
             /\ history' = history
             /\ jobs' = RemoveAt(jobs, i))]_vars

\* the titles a step handed to its solver, read back from the history once the
\* Step of the call is appended
HistBefore == [k \in 1..(Len(history) - 1) |-> history[k].pageTitle]

\* C18: the link the scoring loop returns is a candidate whose score no
\* candidate exceeds, and no candidate before it in candidate order has the
\* same score
C18_FirstGreatestScore ==
    \A i \in VecCalls :
        LET target == jobs[i].target
            c == Candidates(jobs[i].page[1], jobs[i].hist).candidates
        IN c # <<>>
             => \E k \in 1..Len(c) :
                   /\ BestLink(target, c) = c[k]
                   /\ \A j \in 1..Len(c) : Score(target, c[j]) <= Score(target, c[k])
                   /\ \A j \in 1..(k - 1) : Score(target, c[j]) < Score(target, c[k])

C18_Witness ==
    /\ op = "solverReturns"
    /\ Len(jobs) = 1
    /\ jobs[1].pc = "delay"
    /\ jobs[1].solver = "VECTORS"
    /\ history # <<>>
    /\ LET page == jobs[1].page[1]
           c == Candidates(page, HistBefore).candidates
       IN /\ FindLower(page.links, toLowerCase(jobs[1].target)) = None
          /\ Len(c) >= 2
          /\ \E k \in 1..Len(c) :
                /\ jobs[1].link = Some(c[k])
                /\ \E j \in (k + 1)..Len(c) :
                      Score(jobs[1].target, c[j]) = Score(jobs[1].target, c[k])
                /\ \E j \in 1..(k - 1) :
                      Score(jobs[1].target, c[j]) < Score(jobs[1].target, c[k])

\* the positions of the links of the page that are first occurrences and
\* pass the test of the filter in force, in their order
KeptPositions(page, hist, isBacktracking) ==
    LET l == page.links
        seen == {toLowerCase(h) : h \in Range(hist)} \cup {toLowerCase(page.title)}
        keep(k) ==
            /\ \A j \in 1..(k - 1) : l[j] # l[k]
            /\ IF isBacktracking THEN toLowerCase(l[k]) # toLowerCase(page.title)
                                 ELSE toLowerCase(l[k]) \notin seen
    IN SelectSeq([k \in 1..Len(l) |-> k], keep)

\* C26: the candidates are links of the page at increasing positions, no
\* string twice, at most 200, and they are the first 200 of the links that
\* pass the filter
C26_FilterOutputShape ==
    \A i \in VecCalls :
        LET page == jobs[i].page[1]
            f == Candidates(page, jobs[i].hist)
            c == f.candidates
            pos == KeptPositions(page, jobs[i].hist, f.isBacktracking)
        IN /\ Len(c) <= MaxCandidates
           /\ Len(c) = IF Len(pos) < MaxCandidates THEN Len(pos) ELSE MaxCandidates
           /\ \A k \in 1..Len(c) : c[k] = page.links[pos[k]]
           /\ \A k \in 1..Len(c) : \A j \in 1..(k - 1) : c[j] # c[k]

C26_Witness ==
    /\ op = "solverReturns"
    /\ Len(jobs) = 1
    /\ jobs[1].pc = "delay"
    /\ jobs[1].solver = "VECTORS"
    /\ Len(jobs[1].page[1].links) > MaxCandidates
    /\ jobs[1].link = Some(jobs[1].page[1].links[1])
    /\ Len(Candidates(jobs[1].page[1], HistBefore).candidates) = MaxCandidates

\* C27: when the page has a link that is no self-loop (its canonical form is
\* not that of the page), every link the local solver returns is no self-loop
C27_LocalSolverLeavesNode ==
    \A i \in VecCalls :
        LET page == jobs[i].page[1]
            isSelf(l) == Canonical(l) = Canonical(page.title)
        IN (\E l \in Range(page.links) : ~isSelf(l))
              => \A m \in getNextMove("VECTORS", page, jobs[i].target, jobs[i].hist) :
                    ~m.throw => (m.link # None /\ ~isSelf(m.link[1]))

\* C30: a call of the local solver whose embeddings include a zero-norm
\* vector returns no link: it throws, as it does when the provider fails
C30_DegenerateVectorFails ==
    \A i \in VecCalls :
        LET page == jobs[i].page[1]
            f == Candidates(page, jobs[i].hist)
        IN (FindLower(page.links, toLowerCase(jobs[i].target)) = None /\ f.candidates # <<>>)
              => \A dots \in DegenerateDots(jobs[i].target, f.candidates) :
                    ScoreCandidates(f, dots) = Throw

\* C33: when the page has links, every link the local solver returns (the
\* direct match, the best-scored candidate, the default) is one of them
C33_LocalLinkIsOutgoing ==
    \A i \in VecCalls :
        LET page == jobs[i].page[1]
        IN page.links # <<>>
             => \A m \in getNextMove("VECTORS", page, jobs[i].target, jobs[i].hist) :
                   ~m.throw => (m.link # None /\ m.link[1] \in Range(page.links))

\* a call that returned the default: the page has links and none is a candidate
C33_Witness ==
    /\ op = "solverReturns"
    /\ Len(jobs) = 1
    /\ jobs[1].pc = "delay"
    /\ jobs[1].solver = "VECTORS"
    /\ history # <<>>
    /\ LET page == jobs[1].page[1]
       IN /\ page.links # <<>>
          /\ FindLower(page.links, toLowerCase(jobs[1].target)) = None
          /\ Candidates(page, HistBefore).candidates = <<>>
          /\ jobs[1].link = Some(page.links[1])

----------------------------------------------------------------------------
(* Properties of the remote solvers, stated on the solver calls in flight *)

RemoteCalls == {i \in 1..Len(jobs) : jobs[i].pc = "solver" /\ jobs[i].solver # "VECTORS"}

\* the responses that cannot be parsed or that lack a selected link
Degraded(page, target) ==
    {resp \in RemoteResponses(page, target) :
        \/ resp.kind = "unparsable"
        \/ resp.kind = "parsed" /\ resp.selectedLink = None}

----------------------------------------------------------------------------
(* Properties of a failed step *)

\* a step issues its solver call (executeMove) or its destination fetch (the
\* end of its delay)
IssuesCall ==
    \/ op' = "executeMove" /\ Len(jobs') > Len(jobs)
    \/ /\ op' = "delayElapsed"
       /\ \E i \in 1..Len(jobs) :
             /\ jobs[i].pc = "delay"
             /\ Len(jobs') = Len(jobs)
             /\ jobs'[i].pc \in {"fetchFinal", "fetchPaused", "fetchNext"}

\* C20: a solver call that throws and a destination fetch that fails set
\* FAILED, and while the status is FAILED with the error of a failed step no
\* solver call and no fetch is issued
C20_FailedStepStops ==
    [][/\ (op' = "solverReturns" /\ Len(jobs') < Len(jobs)) => status' = "FAILED"
       /\ (op' = "fetchReturns" /\ currentWikiPage' = currentWikiPage
              /\ highlightedLink' = highlightedLink /\ highlightedLink # None)
            => status' = "FAILED"
       /\ (status = "FAILED" /\ error = ErrSolver) => ~IssuesCall]_vars

\* C32: when the solver call of a step throws, the status becomes FAILED with
\* the solver error, and the history and the current node are the ones the
\* step read when it began
C32_ThrowRestoresNothing ==
    [][\A i \in 1..Len(jobs) :
         (/\ jobs[i].pc = "solver"
          /\ op' = "solverReturns"
          /\ jobs' = RemoveAt(jobs, i))
         => (/\ status' = "FAILED"
             /\ error' = ErrSolver
             /\ [k \in 1..Len(history') |-> history'[k].pageTitle] = jobs[i].hist
             /\ currentWikiPage' = jobs[i].page)]_vars

----------------------------------------------------------------------------
(* Properties of history and of the current node *)

LastStep == history[Len(history)]

Visited ==
    {Canonical(history[k].pageTitle) : k \in 1..Len(history)}
        \cup (IF currentWikiPage = None THEN {} ELSE {Canonical(currentWikiPage[1].title)})

\* C22: no step other than a start, an abort or the wall-clock reload removes
\* an element from the visited set
C22_VisitedOnlyGrows ==
    [][(op' \notin {"handleStartGame", "resetGame", "reload"})
         => Visited \subseteq Visited']_vars

\* C23: every step other than a start, an abort or the wall-clock reload
\* leaves the Steps of history as they are, in their order, and adds at most
\* one Step at the end
C23_HistoryAppendOnly ==
    [][(op' \notin {"handleStartGame", "resetGame", "reload"})
         => \/ history' = history
            \/ /\ Len(history') = Len(history) + 1
               /\ SubSeq(history', 1, Len(history)) = history]_vars

C23_Witness ==
    /\ op = "solverReturns"
    /\ Len(history) >= 2
    /\ history[1].pageTitle # LastStep.pageTitle

----------------------------------------------------------------------------
(* Properties of loadModel *)

\* the calls whose pipeline call is in progress
Initialising == {i \in 1..Len(loads) : loads[i].pc = "pipeline"}

\* C24: at most one pipeline call is in progress at a time; a call that
\* arrives while one is in progress waits and starts none; once extractor is
\* set no call starts a pipeline call
C24_OneInitialisation ==
    /\ [](Cardinality(Initialising) <= 1)
    /\ [][/\ (Len(loads') > Len(loads) /\ Initialising # {})
               => (loads'[Len(loads')].pc = "waiting" /\ Initialising' = Initialising)
          /\ (extractor # None) => Initialising' = {}]_vars

C24_Witness ==
    /\ Len(loads) = 4
    /\ loads[1] = Load("done", "throw")
    /\ loads[2].pc = "pipeline"
    /\ loads[3].pc = "waiting"
    /\ loads[4].pc = "waiting"

\* C34: every loadModel call that has completed returned the extractor or
\* threw the initialisation error; none returned null
C34_NeverReturnsNull ==
    \A i \in 1..Len(loads) : loads[i].pc = "done" => loads[i].result \in {"model", "throw"}

----------------------------------------------------------------------------
(* Properties of the guardrails *)

\* C25: a tab hidden in PLAYING pauses the run, and when the tab is hidden
\* while a step is in flight and the step's destination fetch returns next,
\* the step leaves the run PAUSED (or ended), not PLAYING
C25_HiddenTabPauses ==
    [][/\ (op' = "handleVisibilityChange" /\ status = "PLAYING") => status' = "PAUSED"
       /\ (/\ op = "handleVisibilityChange"
           /\ status = "LOADING_STEP"
           /\ op' = "fetchReturns")
            => status' \in {"PAUSED", "SUCCESS", "FAILED"}]_vars

\* C29: the forced reset occurs only in a document in which a run has been
\* started: no reload while run = 0
C29_ResetOnlyAfterStart == [][op' = "reload" => run >= 1]_vars

----------------------------------------------------------------------------
(* Properties of the run on the two pages that link only to each other *)

\* some page is the node left by two Steps of the history
Revisited == \E j, k \in 1..Len(history) : j < k /\ history[j].pageTitle = history[k].pageTitle

\* C28: on the loop the run never succeeds; from the second step on every
\* call of the local solver is at a dead end, uses the fallback and returns a
\* visited node; a tick launches the next step whenever the history is shorter
\* than the budget and ends the run FAILED with the budget message when the
\* history length equals the budget, which it never exceeds; and a run that
\* is playing ends FAILED
C28_LoopRunsToBudget ==
    /\ [](/\ status # "SUCCESS"
          /\ Len(history) <= maxSteps
          /\ (status = "FAILED" /\ error = ErrMax) => Len(history) = maxSteps
          /\ \A i \in VecCalls :
                jobs[i].hist # <<>>
                  => /\ Candidates(jobs[i].page[1], jobs[i].hist).isBacktracking
                     /\ \A m \in getNextMove("VECTORS", jobs[i].page[1],
                                              jobs[i].target, jobs[i].hist) :
                           ~m.throw => (m.link # None /\ m.link[1] \in Range(jobs[i].hist)))
    /\ [][op' = "executeMove"
            => /\ Len(history) < maxSteps => status' = "LOADING_STEP"
               /\ Len(history) = maxSteps => (status' = "FAILED" /\ error' = ErrMax)]_vars
    /\ (status = "PLAYING" ~> status = "FAILED")

C28_Witness ==
    /\ op = "executeMove"
    /\ status = "FAILED"
    /\ error = ErrMax
    /\ Len(history) = maxSteps
    /\ Revisited

----------------------------------------------------------------------------
(* Properties of pause and resume *)

\* C31: in PAUSED with nothing in flight no call is started, and history and
\* current node change only through abort or the forced reload; a resume
\* request sets PLAYING and changes neither; and the tick that follows the
\* resume hands the current node and the titles of the history to its step
C31_PausedFrame ==
    [][/\ (status = "PAUSED" /\ jobs = <<>>)
            => /\ jobs' = <<>>
               /\ op' \notin {"resetGame", "reload"}
                     => (history' = history /\ currentWikiPage' = currentWikiPage)
               /\ op' = "togglePause" => status' = "PLAYING"
       /\ (op = "togglePause" /\ status = "PLAYING" /\ jobs = <<>>
              /\ op' = "executeMove" /\ status' = "LOADING_STEP")
            => /\ jobs'[1].page = currentWikiPage
               /\ jobs'[1].hist = [k \in 1..Len(history) |-> history[k].pageTitle]
               /\ history' = history
               /\ currentWikiPage' = currentWikiPage]_vars

\* a resume from PAUSED with nothing in flight, one Step into the run
C31_Witness ==
    /\ op = "togglePause"
    /\ status = "PLAYING"
    /\ jobs = <<>>
    /\ history # <<>>
    /\ currentWikiPage # None
    /\ ENABLED executeMove

\* C35: when the run was paused while its start fetch was in flight and the
\* fetch then returns the page, the status stays PAUSED
C35_PauseInStartingKept ==
    [][\A i \in 1..Len(jobs) :
         (/\ jobs[i].pc = "fetchStart"
          /\ jobs[i].run = run
          /\ status = "PAUSED"
          /\ op' = "startFetchReturns"
          /\ jobs' = RemoveAt(jobs, i)
          /\ error' # ErrStart)
         => status' = "PAUSED"]_vars

----------------------------------------------------------------------------
(* Properties of the solver panel *)

\* C36: the API key and the selected model change only by the user's edit of
\* the field or the select, or in a transition that changes the solver; the
\* completion of the pre-load changes neither
C36_KeyResetOnlyOnSolverChange ==
    [][(userApiKey' # userApiKey \/ selectedModel' # selectedModel)
          => \/ op' \in {"setUserApiKey", "setSelectedModel"}
             \/ solver' # solver]_vars

====
